---------------------------- MODULE Spec2Model ----------------------------
(***************************************************************************)
(* Storytoon AI: the client-side orchestration of src/App.tsx and the two *)
(* external-call wrappers of the Gemini client (src/unnamed/part_000).    *)
(*                                                                         *)
(* The React component is modelled as a state machine.  A step is one     *)
(* event-loop task: a user event handler, or the settling of one awaited  *)
(* promise together with everything the async function does up to its     *)
(* next await.  State setters take effect within the step; a handler      *)
(* reads the state through the closure of the render it was created in,   *)
(* so values it captured before an await are kept in the model as the     *)
(* captured copies (run.panels, op.panel).                                 *)
(*                                                                         *)
(* Panels are numbered 1..NumPanels here (panelIndex + 1 of the source).   *)
(***************************************************************************)
EXTENDS Integers, Sequences, FiniteSets, TLC

(***************************************************************************)
(* Program constants and bounds                                            *)
(***************************************************************************)
NumPanels == 4
MaxCharacters == 2

MaxUserEvents == 4
MaxRuns == 2
MaxRegens == 1
MaxStoryEdits == 1
MaxEdits == 2
MaxPick == 2
MaxSplitItems == 5
MaxParts == 4

Panels == 1..NumPanels

Min(a, b) == IF a < b THEN a ELSE b

(***************************************************************************)
(* Values                                                                  *)
(***************************************************************************)
\* image: string | null.  null is the empty tuple, a data URL is the pair
\* of its prefix and its base64 payload.
NullImage == <<>>

DataUrl(generatedImage) == <<"data:image/png;base64,", generatedImage>>

\* error: string | null, with the message kept in its parts
NoError == [kind |-> "none", panel |-> 0, message |-> ""]

StoryMissingError == [kind |-> "validation", panel |-> 0,
                      message |-> "Please provide a story."]

PanelStoryMissingError(p) ==
    [kind |-> "validation", panel |-> p,
     message |-> "Please provide a story for Panel before regenerating."]

PanelError(p, errorMessage) ==
    [kind |-> "panel", panel |-> p, message |-> errorMessage]

\* CharacterData of a picked file.  Every pick yields new File objects and
\* new object URLs: files are numbered in the order they are picked.
CharacterOf(file) == [file |-> file, preview |-> <<"blob", file>>]

initialPanelsFive ==
    [p \in 1..5 |-> [story |-> "", image |-> NullImage,
                     characters |-> <<>>, isRegenerating |-> FALSE]]

initialPanels ==
    [p \in Panels |-> [story |-> "", image |-> NullImage,
                       characters |-> <<>>, isRegenerating |-> FALSE]]

\* the story textarea: a text is a sequence of characters
StoryTexts == {<<>>, <<" ">>, <<" ", "a", " ">>}

IsSpace(c) == c = " "

RECURSIVE TrimLeft(_)
TrimLeft(s) ==
    IF s = <<>> THEN s
    ELSE IF IsSpace(Head(s)) THEN TrimLeft(Tail(s)) ELSE s

RECURSIVE TrimRight(_)
TrimRight(s) ==
    IF s = <<>> THEN s
    ELSE IF IsSpace(s[Len(s)]) THEN TrimRight(SubSeq(s, 1, Len(s) - 1)) ELSE s

TrimNone(s) == s

Trim(s) == TrimRight(TrimLeft(s))

(***************************************************************************)
(* The Gemini client                                                       *)
(***************************************************************************)
Slice(s, n) == SubSeq(s, 1, Min(n, Len(s)))

PadPanelsNone(resultPanels) == resultPanels

RECURSIVE PadPanels(_)
PadPanels(resultPanels) ==
    IF Len(resultPanels) < 4 THEN PadPanels(Append(resultPanels, "..."))
    ELSE resultPanels

SplitFailure ==
    [ok |-> FALSE, value |-> <<>>,
     message |-> "Failed to split the story into panels. Please try rephrasing your story."]

\* response: what the model call and JSON.parse produce.  kind "error" is a
\* throw of the client, the call or the parse; "notArray" is a parsed value
\* that is no array; "array" carries the parsed items.
splitStoryIntoPanelsNoCheck(response) ==
    IF response.kind = "error" THEN SplitFailure
    ELSE [ok |-> TRUE, value |-> PadPanels(Slice(response.items, 4)), message |-> ""]

splitStoryIntoPanels(response) ==
    IF response.kind = "error" THEN SplitFailure
    ELSE IF response.kind # "array" \/ Len(response.items) = 0 THEN SplitFailure
    ELSE [ok |-> TRUE, value |-> PadPanels(Slice(response.items, 4)), message |-> ""]

Scenes == <<"s1", "s2", "s3", "s4", "s5", "s6", "s7">>

\* the responses the orchestration is run with: a failure, a non-list, an
\* empty list and a list of MaxSplitItems scenes (SplitInputs below has every
\* list, for the function on its own)
SplitResponses ==
    {[kind |-> "error", items |-> <<>>], [kind |-> "notArray", items |-> <<>>]}
    \cup {[kind |-> "array", items |-> SubSeq(Scenes, 1, n)] : n \in {0, MaxSplitItems}}

GenerateFailure ==
    [ok |-> FALSE, value |-> "",
     message |-> "Failed to generate the comic panel. The model may have safety restrictions on the prompt or image."]

\* a response part: inlineData is "" when the part carries text only
TextPart == [inlineData |-> ""]

ImagePart(data) == [inlineData |-> data]

RECURSIVE LastInlineData(_)
LastInlineData(parts) ==
    IF parts = <<>> THEN ""
    ELSE IF parts[Len(parts)].inlineData # "" THEN parts[Len(parts)].inlineData
    ELSE LastInlineData(SubSeq(parts, 1, Len(parts) - 1))

RECURSIVE FirstInlineData(_)
FirstInlineData(parts) ==
    IF parts = <<>> THEN ""
    ELSE IF Head(parts).inlineData # "" THEN Head(parts).inlineData
    ELSE FirstInlineData(Tail(parts))

generateComicPanel(response) ==
    IF response.kind = "error" THEN GenerateFailure
    ELSE IF FirstInlineData(response.parts) = "" THEN GenerateFailure
    ELSE [ok |-> TRUE, value |-> FirstInlineData(response.parts), message |-> ""]

GenerateResponses ==
    {[kind |-> "error", parts |-> <<>>],
     [kind |-> "parts", parts |-> <<TextPart>>],
     [kind |-> "parts", parts |-> <<TextPart, ImagePart("A"), ImagePart("B")>>]}


(***************************************************************************)
(* The image compositor, as far as the orchestration sees it: it resolves, *)
(* or it rejects with the load event of a reference image (no Error, so    *)
(* the message is 'Unknown error'), or it throws for want of a 2d context. *)
(***************************************************************************)
PreprocessOutcomes(characters) ==
    {"ok", "noContext"} \cup (IF characters # <<>> THEN {"loadError"} ELSE {})

PreprocessMessage(outcome) ==
    IF outcome = "noContext" THEN "Could not get canvas context" ELSE "Unknown error"

(***************************************************************************)
(* State                                                                   *)
(***************************************************************************)
VARIABLES
    panels,               \* useState panels: Panels -> PanelData
    story,                \* useState story
    loading,              \* useState loading
    error,                \* useState error
    generationAttempted,  \* useState generationAttempted
    run,                  \* the pending handleGenerate call: where it awaits, and its captured panels
    ops,                  \* the pending runGeneration calls
    picked,               \* how many files have been picked so far
    runs, regens, edits, storyEdits,  \* how many user events of each kind have happened
    lastEvent,            \* history: the step that led to this state
    runLog                \* history: what the latest full-story run has done

vars == <<panels, story, loading, error, generationAttempted, run, ops,
          picked, runs, regens, edits, storyEdits, lastEvent, runLog>>

\* the user events so far
UserEvents == runs + regens + edits + storyEdits

MayAct == UserEvents < MaxUserEvents

IdleRun == [pc |-> "idle", panels |-> initialPanels]

\* no external call has settled in the step
NoResponse == [kind |-> "none"]

Event(kind, p, owner, started, arg) ==
    [kind |-> kind, panel |-> p, owner |-> owner, started |-> started, arg |-> arg,
     index |-> 0, files |-> <<>>, response |-> NoResponse, ok |-> FALSE]

NewRunLog(before) ==
    [failedAt |-> 0, preprocessed |-> {}, generated |-> {}, succeeded |-> {},
     splitDone |-> FALSE, before |-> [p \in Panels |-> before[p].image],
     scenes |-> <<>>]

Init ==
    /\ panels = initialPanels
    /\ story = <<>>
    /\ loading = FALSE
    /\ error = NoError
    /\ generationAttempted = FALSE
    /\ run = IdleRun
    /\ ops = {}
    /\ runs = 0
    /\ regens = 0
    /\ edits = 0
    /\ storyEdits = 0
    /\ picked = 0
    /\ lastEvent = Event("init", 0, "user", 0, <<>>)
    /\ runLog = NewRunLog(initialPanels)

(***************************************************************************)
(* Editing                                                                 *)
(***************************************************************************)
\* the story textarea's onChange
SetStory(text) ==
    /\ MayAct
    /\ storyEdits < MaxStoryEdits
    /\ story' = text
    /\ storyEdits' = storyEdits + 1
    /\ lastEvent' = Event("setStory", 0, "user", 0, <<>>)
    /\ UNCHANGED <<panels, loading, error, generationAttempted, run, ops, picked,
                   runs, regens, edits, runLog>>

\* a panel's textarea onChange; the textarea is rendered once generationAttempted
EditedPanels(prev, p, newStory) ==
    [prev EXCEPT ![p] = [@ EXCEPT !.story = newStory]]

EditPanelStory(p, newStory) ==
    /\ generationAttempted
    /\ MayAct
    /\ edits < MaxEdits
    /\ panels' = EditedPanels(panels, p, newStory)
    /\ edits' = edits + 1
    /\ lastEvent' = Event("edit", p, "user", 0, <<newStory>>)
    /\ UNCHANGED <<story, loading, error, generationAttempted, run, ops, picked,
                   runs, regens, storyEdits, runLog>>

UpdatedCharactersNoLimit(characters, newCharacters) ==
    characters \o newCharacters

UpdatedCharacters(characters, newCharacters) ==
    Slice(characters \o newCharacters, MaxCharacters)

NewCharacters(files) == [k \in 1..Len(files) |-> CharacterOf(files[k])]

\* the file input is rendered while the panel holds fewer than 2 characters
PickedFiles(n) == [k \in 1..n |-> picked + k]

handleFileChange(p, n) ==
    /\ Len(panels[p].characters) < 2
    /\ MayAct
    /\ edits < MaxEdits
    /\ panels' = [panels EXCEPT ![p] =
                     [@ EXCEPT !.characters = UpdatedCharacters(@, NewCharacters(PickedFiles(n)))]]
    /\ picked' = picked + n
    /\ edits' = edits + 1
    /\ lastEvent' = [Event("pick", p, "user", 0, <<>>) EXCEPT !.files = PickedFiles(n)]
    /\ UNCHANGED <<story, loading, error, generationAttempted, run, ops,
                   runs, regens, storyEdits, runLog>>

\* filter((_, i) => i !== charIndex), charIndex counted from 1 here
FilterKeep(characters, charIndex) ==
    SubSeq(characters, charIndex, charIndex)

FilterOut(characters, charIndex) ==
    SubSeq(characters, 1, charIndex - 1) \o SubSeq(characters, charIndex + 1, Len(characters))

removeCharacter(p, charIndex) ==
    /\ charIndex \in 1..Len(panels[p].characters)
    /\ MayAct
    /\ edits < MaxEdits
    /\ panels' = [panels EXCEPT ![p] =
                     [@ EXCEPT !.characters = FilterOut(@, charIndex)]]
    /\ edits' = edits + 1
    /\ lastEvent' = [Event("remove", p, "user", 0, <<>>) EXCEPT !.index = charIndex]
    /\ UNCHANGED <<story, loading, error, generationAttempted, run, ops, picked,
                   runs, regens, storyEdits, runLog>>

(***************************************************************************)
(* runGeneration                                                           *)
(***************************************************************************)
\* line 90: the panel goes Generating and its image is cleared
GenerationStartedKeepsImage(prev, p) ==
    [prev EXCEPT ![p] = [@ EXCEPT !.isRegenerating = TRUE]]

GenerationStarted(prev, p) ==
    [prev EXCEPT ![p] = [@ EXCEPT !.isRegenerating = TRUE, !.image = NullImage]]

\* line 94
GenerationSucceededNoSpread(prev, p, generatedImage) ==
    [prev EXCEPT ![p] = [story |-> "", image |-> DataUrl(generatedImage),
                         characters |-> <<>>, isRegenerating |-> FALSE]]

GenerationSucceeded(prev, p, generatedImage) ==
    [prev EXCEPT ![p] = [@ EXCEPT !.image = DataUrl(generatedImage), !.isRegenerating = FALSE]]

\* line 98
GenerationFailed(prev, p) ==
    [prev EXCEPT ![p] = [@ EXCEPT !.isRegenerating = FALSE]]

\* a pending runGeneration(panelIndex, panel) call, awaiting preprocessImages
\* (stage "pre") or generateComicPanel (stage "gen")
NewOp(id, owner, p, panel) ==
    [id |-> id, owner |-> owner, index |-> p, panel |-> panel, stage |-> "pre"]

\* The for loop of handleGenerate after runGeneration(p) has settled: the
\* panel it calls runGeneration for next, 0 when it leaves the loop.  A
\* failed runGeneration re-throws, which leaves the loop.
NextPanelNoRethrow(p, ok) == IF p < NumPanels THEN p + 1 ELSE 0

NextPanelSkip(p, ok) == IF ok /\ p + 1 < NumPanels THEN p + 2 ELSE 0

NextPanel(p, ok) == IF ok /\ p < NumPanels THEN p + 1 ELSE 0


\* What follows the settling of a runGeneration call: the call is no longer
\* pending; a call made by handleGenerate's loop is followed by the call for
\* the next panel, or by the end of handleGenerate (finally: setLoading(false)).
AfterSettled(op, ok, settledPanels) ==
    LET next == IF op.owner = "run" THEN NextPanel(op.index, ok) ELSE 0
    IN  /\ IF next # 0
           THEN /\ panels' = GenerationStarted(settledPanels, next)
                /\ ops' = (ops \ {op}) \cup {NewOp(0, "run", next, run.panels[next])}
                /\ UNCHANGED <<loading, run>>
           ELSE /\ panels' = settledPanels
                /\ ops' = ops \ {op}
                /\ IF op.owner = "run"
                   THEN loading' = FALSE /\ run' = IdleRun
                   ELSE UNCHANGED <<loading, run>>
        /\ runLog' =
              IF op.owner # "run" THEN runLog
              ELSE [runLog EXCEPT
                      !.failedAt = IF ok \/ @ # 0 THEN @ ELSE op.index,
                      !.succeeded = IF ok THEN @ \cup {op.index} ELSE @,
                      !.preprocessed = IF next # 0 THEN @ \cup {next} ELSE @]
        /\ lastEvent' = Event(IF op.stage = "pre" THEN "preFail"
                              ELSE IF ok THEN "genOk" ELSE "genFail",
                              op.index, op.owner, next,
                              IF ok THEN <<settledPanels[op.index].image[2]>> ELSE <<>>)

\* catch of runGeneration, lines 95-99
Failed(op, errorMessage) ==
    /\ error' = PanelError(op.index, errorMessage)
    /\ AfterSettled(op, FALSE, GenerationFailed(panels, op.index))

\* await preprocessImages(panel.characters, aspectRatio) settles
PreprocessSettles(op, outcome) ==
    /\ op.stage = "pre"
    /\ outcome \in PreprocessOutcomes(op.panel.characters)
    /\ IF outcome = "ok"
       THEN /\ ops' = (ops \ {op}) \cup {[op EXCEPT !.stage = "gen"]}
            /\ runLog' = IF op.owner = "run"
                         THEN [runLog EXCEPT !.generated = @ \cup {op.index}]
                         ELSE runLog
            /\ lastEvent' = Event("preOk", op.index, op.owner, 0, <<>>)
            /\ UNCHANGED <<panels, loading, error, run>>
       ELSE Failed(op, PreprocessMessage(outcome))
    /\ UNCHANGED <<story, generationAttempted, picked, runs, regens, edits, storyEdits>>

\* await generateComicPanel(preCompositedImage, panel.story) settles
GenerateSettles(op, response) ==
    /\ op.stage = "gen"
    /\ LET result == generateComicPanel(response)
       IN  IF result.ok
           THEN /\ AfterSettled(op, TRUE, GenerationSucceeded(panels, op.index, result.value))
                /\ UNCHANGED error
           ELSE Failed(op, result.message)
    /\ UNCHANGED <<story, generationAttempted, picked, runs, regens, edits, storyEdits>>

(***************************************************************************)
(* handleGenerate                                                          *)
(***************************************************************************)
\* the Create Storytoon button is disabled while loading
handleGenerate ==
    /\ ~loading
    /\ MayAct
    /\ runs < MaxRuns
    /\ runs' = runs + 1
    /\ IF Trim(story) = <<>>
       THEN /\ error' = StoryMissingError
            /\ lastEvent' = Event("generateRejected", 0, "user", 0, <<>>)
            /\ UNCHANGED <<loading, generationAttempted, run, runLog>>
       ELSE /\ loading' = TRUE
            /\ error' = NoError
            /\ generationAttempted' = TRUE
            /\ run' = [pc |-> "split", panels |-> panels]
            /\ runLog' = NewRunLog(panels)
            /\ lastEvent' = Event("generate", 0, "user", 0, <<>>)
    /\ UNCHANGED <<panels, story, ops, picked, regens, edits, storyEdits>>

\* line 115: the panels this handleGenerate call captured, with the stories
UpdatedPanelsFirstStory(captured, panelStories) ==
    [p \in DOMAIN captured |-> [captured[p] EXCEPT !.story = panelStories[1]]]

UpdatedPanels(captured, panelStories) ==
    [p \in DOMAIN captured |-> [captured[p] EXCEPT !.story = panelStories[p]]]

\* await splitStoryIntoPanels(story) settles
SplitSettles(response) ==
    /\ run.pc = "split"
    /\ LET result == splitStoryIntoPanels(response)
       IN  IF result.ok
           THEN LET updatedPanels == UpdatedPanels(run.panels, result.value)
                IN  /\ panels' = GenerationStarted(updatedPanels, 1)
                    /\ run' = [pc |-> "panels", panels |-> updatedPanels]
                    /\ ops' = ops \cup {NewOp(0, "run", 1, updatedPanels[1])}
                    /\ runLog' = [runLog EXCEPT !.splitDone = TRUE, !.preprocessed = {1},
                                                !.scenes = result.value]
                    /\ lastEvent' = [Event("splitOk", 0, "run", 1, result.value)
                                        EXCEPT !.response = response, !.ok = TRUE]
                    /\ UNCHANGED loading
           ELSE /\ loading' = FALSE
                /\ run' = IdleRun
                /\ lastEvent' = [Event("splitFail", 0, "run", 0, <<>>)
                                    EXCEPT !.response = response]
                /\ UNCHANGED <<panels, ops, runLog>>
    /\ UNCHANGED <<story, error, generationAttempted, picked, runs, regens, edits, storyEdits>>

(***************************************************************************)
(* handleRegeneratePanel                                                   *)
(***************************************************************************)
\* the Regenerate button is rendered once generationAttempted, and disabled
\* while loading or while the panel is regenerating
HasStoryAlways(panelToRegen) == TRUE

\* line 131, negated: the panel exists and its story is not empty
HasStory(panelToRegen) == panelToRegen.story # ""

handleRegeneratePanel(p) ==
    /\ generationAttempted
    /\ ~(loading \/ panels[p].isRegenerating)
    /\ MayAct
    /\ regens < MaxRegens
    /\ regens' = regens + 1
    /\ IF ~HasStory(panels[p])
       THEN /\ error' = PanelStoryMissingError(p)
            /\ lastEvent' = Event("regenRejected", p, "user", 0, <<>>)
            /\ UNCHANGED <<panels, ops>>
       ELSE /\ error' = NoError
            /\ panels' = GenerationStarted(panels, p)
            /\ ops' = ops \cup {NewOp(regens + 1, "regen", p, panels[p])}
            /\ lastEvent' = Event("regen", p, "regen", p, <<>>)
    /\ UNCHANGED <<story, loading, generationAttempted, run, picked, runs, edits,
                   storyEdits, runLog>>

(***************************************************************************)
(* Specification                                                           *)
(***************************************************************************)
PanelStories == {"", "e"}

Next ==
    \/ \E text \in StoryTexts : SetStory(text)
    \/ \E p \in Panels, newStory \in PanelStories : EditPanelStory(p, newStory)
    \/ \E p \in Panels, n \in 1..MaxPick : handleFileChange(p, n)
    \/ \E p \in Panels, charIndex \in 1..MaxCharacters : removeCharacter(p, charIndex)
    \/ handleGenerate
    \/ \E response \in SplitResponses : SplitSettles(response)
    \/ \E op \in ops, outcome \in {"ok", "noContext", "loadError"} : PreprocessSettles(op, outcome)
    \/ \E op \in ops, response \in GenerateResponses : GenerateSettles(op, response)
    \/ \E p \in Panels : handleRegeneratePanel(p)

Spec == Init /\ [][Next]_vars

\* Every issued external call settles: a pending split call, compositor call
\* or generation call eventually completes or fails.
FairSpec ==
    /\ Spec
    /\ WF_vars(\E response \in SplitResponses : SplitSettles(response))
    /\ WF_vars(\E op \in ops, outcome \in {"ok", "noContext", "loadError"} :
                  PreprocessSettles(op, outcome))
    /\ WF_vars(\E op \in ops, response \in GenerateResponses : GenerateSettles(op, response))

(***************************************************************************)
(* The two client functions on their own: any response of the model call   *)
(* is given to the function, and the step records the response and the     *)
(* result (ok: it returned; arg: what it returned).                        *)
(***************************************************************************)
SplitItems == {"s1", "s2", "..."}

SplitInputs ==
    {[kind |-> "error", items |-> <<>>], [kind |-> "notArray", items |-> <<>>]}
    \cup {[kind |-> "array", items |-> items] :
             items \in UNION {[1..n -> SplitItems] : n \in 0..MaxSplitItems}}

GenerateInputs ==
    {[kind |-> "error", parts |-> <<>>]}
    \cup {[kind |-> "parts", parts |-> parts] :
             parts \in UNION {[1..n -> {TextPart, ImagePart("A"), ImagePart("B")}] :
                                n \in 0..MaxParts}}

SplitCall(response) ==
    /\ LET result == splitStoryIntoPanels(response)
       IN  lastEvent' = [Event("splitCall", 0, "call", 0, result.value)
                           EXCEPT !.response = response, !.ok = result.ok]
    /\ UNCHANGED <<panels, story, loading, error, generationAttempted, run, ops,
                   picked, runs, regens, edits, storyEdits, runLog>>

GenerateCall(response) ==
    /\ LET result == generateComicPanel(response)
       IN  lastEvent' = [Event("generateCall", 0, "call", 0,
                               IF result.ok THEN <<result.value>> ELSE <<>>)
                           EXCEPT !.response = response, !.ok = result.ok]
    /\ UNCHANGED <<panels, story, loading, error, generationAttempted, run, ops,
                   picked, runs, regens, edits, storyEdits, runLog>>

CallNext ==
    \/ \E response \in SplitInputs : SplitCall(response)
    \/ \E response \in GenerateInputs : GenerateCall(response)

CallSpec == Init /\ [][CallNext]_vars

(***************************************************************************)
(* Properties                                                              *)
(***************************************************************************)
RunOps == {op \in ops : op.owner = "run"}

RunFailed == lastEvent.owner = "run" /\ lastEvent.kind \in {"preFail", "genFail"}

\* C1: once the compositor or the generation call of panel k has failed in a
\* full-story run, the run is over: it has no pending call, and it has called
\* neither the compositor nor the generation call for any panel after k.
C1_HaltsOnFailure ==
    runLog.failedAt # 0 =>
        /\ run.pc = "idle"
        /\ RunOps = {}
        /\ \A j \in Panels :
              j > runLog.failedAt => j \notin runLog.preprocessed \cup runLog.generated

C1_Witness ==
    /\ RunFailed
    /\ lastEvent.panel = 2
    /\ runLog.failedAt = 2
    /\ runLog.succeeded = {1}

\* C2: in a full-story run no panel's compositor is called before the split
\* has returned; a panel's compositor is called only when every earlier panel's
\* attempt of the run has succeeded, its generation call only after its
\* compositor; and the run has at most one panel operation pending, for the
\* latest panel it started.
C2_Sequential ==
    /\ (run.pc = "split" \/ ~runLog.splitDone) =>
            RunOps = {} /\ runLog.preprocessed = {} /\ runLog.generated = {}
    /\ runLog.generated \subseteq runLog.preprocessed
    /\ \A j \in runLog.preprocessed : \A i \in 1..(j - 1) : i \in runLog.succeeded
    /\ Cardinality(RunOps) <= 1
    /\ \A op \in RunOps :
          /\ run.pc = "panels"
          /\ runLog.preprocessed = 1..op.index
          /\ op.index \notin runLog.succeeded

C2_Witness ==
    /\ \E op \in RunOps : op.index = 3 /\ op.stage = "gen"
    /\ runLog.succeeded = {1, 2}


\* C3: when a full-story run ends with the failure of panel k, every later
\* panel is Idle and holds the image it held when the run started.
C3_LaterPanelsPreRun ==
    RunFailed =>
        \A j \in Panels :
            j > lastEvent.panel =>
                /\ ~panels[j].isRegenerating
                /\ panels[j].image = runLog.before[j]

\* C4: when the story split has failed, or the compositor or the generation
\* call of a panel has failed, the error message is set as the operation ends.
C4_ErrorSurfaced ==
    lastEvent.kind \in {"splitFail", "preFail", "genFail"} => error # NoError

\* C5: a Regenerate click on a panel whose story is empty sets the error
\* message, starts no runGeneration call and changes no panel.
C5_RegenerateNeedsStory ==
    [][\A p \in Panels :
          (/\ lastEvent'.kind \in {"regen", "regenRejected"}
           /\ lastEvent'.panel = p
           /\ regens' = regens + 1
           /\ panels[p].story = "")
          => /\ error' # NoError
             /\ error'.panel = p
             /\ ops' = ops
             /\ panels' = panels]_vars

C5_Witness ==
    /\ lastEvent.kind = "regenRejected"
    /\ panels[lastEvent.panel].story = ""
    /\ error = PanelStoryMissingError(lastEvent.panel)
    /\ ops = {}

\* C6: the panel a runGeneration call is made for is Generating with no
\* image; when the call succeeds the panel is Idle with the returned payload
\* as its image; when it fails the panel is Idle with no image and the error
\* message names the panel.
C6_AttemptTransitions ==
    /\ lastEvent.started # 0 =>
          /\ panels[lastEvent.started].isRegenerating
          /\ panels[lastEvent.started].image = NullImage
    /\ lastEvent.kind = "genOk" =>
          /\ lastEvent.started # lastEvent.panel => ~panels[lastEvent.panel].isRegenerating
          /\ panels[lastEvent.panel].image = DataUrl(lastEvent.arg[1])
    /\ lastEvent.kind \in {"preFail", "genFail"} =>
          /\ ~panels[lastEvent.panel].isRegenerating
          /\ panels[lastEvent.panel].image = NullImage
          /\ error.kind = "panel"
          /\ error.panel = lastEvent.panel

\* C7: a panel is Generating exactly when a runGeneration call for it is pending.
C7_FlagIffInFlight ==
    \A p \in Panels : panels[p].isRegenerating <=> (\E op \in ops : op.index = p)

\* C8: at most one panel has a runGeneration call pending.
C8_OnePanelAtATime ==
    Cardinality({op.index : op \in ops}) <= 1

\* C9: when the run assigns the split results, the panels keep what was
\* applied to them while the split was pending: every panel keeps its
\* characters, and every panel the run does not start keeps its image and
\* its in-progress flag.
C9_NoLostUpdate ==
    [][lastEvent'.kind = "splitOk" =>
          \A p \in Panels :
              /\ panels'[p].characters = panels[p].characters
              /\ p # lastEvent'.started =>
                    /\ panels'[p].image = panels[p].image
                    /\ panels'[p].isRegenerating = panels[p].isRegenerating]_vars

\* C10: a panel never holds more than 2 characters, and a file pick leaves
\* the panel with the first two of its characters followed by the picked ones.
C10_AtMostTwoCharacters ==
    /\ [](\A p \in Panels : Len(panels[p].characters) <= 2)
    /\ [][\A p \in Panels :
            (lastEvent'.kind = "pick" /\ lastEvent'.panel = p /\ picked' # picked) =>
                LET old == panels[p].characters
                    new == panels'[p].characters
                    files == lastEvent'.files
                IN  /\ Len(new) = Min(2, Len(old) + Len(files))
                    /\ \A k \in 1..Len(new) :
                          new[k] = IF k <= Len(old) THEN old[k]
                                   ELSE CharacterOf(files[k - Len(old)])]_vars

\* a pick of two files for a panel that held one: the second file is ignored
C10_Witness ==
    /\ lastEvent.kind = "pick"
    /\ Len(lastEvent.files) = 2
    /\ Len(panels[lastEvent.panel].characters) = 2
    /\ panels[lastEvent.panel].characters[1].file < lastEvent.files[1]
    /\ panels[lastEvent.panel].characters[2].file = lastEvent.files[1]


\* C11: the panel collection always holds exactly 4 panels.
C11_FourPanels ==
    Len(panels) = 4 /\ DOMAIN panels = 1..4

\* a second full-story run has gone through all four panels after edits
C11_Witness ==
    /\ Len(panels) = 4
    /\ runs = 2
    /\ edits > 0
    /\ runLog.succeeded = {1, 2, 3, 4}


\* C12: whenever splitStoryIntoPanels returns, it returns exactly 4 entries;
\* given a list of n >= 1 items it returns, and the result is the first
\* min(n, 4) items in order followed by "..." up to 4 entries.
C12_SplitReturnsFour ==
    lastEvent.kind = "splitCall" =>
        /\ lastEvent.ok => Len(lastEvent.arg) = 4
        /\ (lastEvent.response.kind = "array" /\ Len(lastEvent.response.items) >= 1) =>
              /\ lastEvent.ok
              /\ \A k \in 1..4 :
                    lastEvent.arg[k] = IF k <= Len(lastEvent.response.items)
                                       THEN lastEvent.response.items[k]
                                       ELSE "..."

\* a list of two items is padded
C12_Witness ==
    /\ lastEvent.kind = "splitCall"
    /\ lastEvent.response.kind = "array"
    /\ lastEvent.response.items = <<"s2", "s1">>
    /\ lastEvent.arg = <<"s2", "s1", "...", "...">>


\* the positions of the response parts that carry inline image data
InlineParts(parts) == {k \in 1..Len(parts) : parts[k].inlineData # ""}

\* C16: generateComicPanel returns the payload of the first response part
\* that carries inline image data, and fails when no part carries any.
C16_FirstInlinePayload ==
    (lastEvent.kind = "generateCall" /\ lastEvent.response.kind = "parts") =>
        LET parts == lastEvent.response.parts
            inline == InlineParts(parts)
        IN  IF inline = {}
            THEN ~lastEvent.ok
            ELSE /\ lastEvent.ok
                 /\ \E k \in inline :
                       /\ \A j \in inline : k <= j
                       /\ lastEvent.arg = <<parts[k].inlineData>>

\* a text part, then two image parts: the first image is returned
C16_Witness ==
    /\ lastEvent.kind = "generateCall"
    /\ lastEvent.response.kind = "parts"
    /\ lastEvent.response.parts = <<TextPart, ImagePart("B"), ImagePart("A")>>
    /\ lastEvent.ok
    /\ lastEvent.arg = <<"B">>


\* C13: after a successful split of a full-story run every panel's story is
\* the scene returned for it, and every runGeneration call of the run is made
\* with the scene returned for its panel.
C13_ScenesInOrder ==
    /\ lastEvent.kind = "splitOk" =>
          \A i \in Panels : panels[i].story = lastEvent.arg[i]
    /\ \A op \in RunOps : op.panel.story = runLog.scenes[op.index]

\* panel 3's story was edited during the run; its generation call still
\* carries the third scene
C13_Witness ==
    \E op \in RunOps :
        /\ op.index = 3
        /\ op.stage = "gen"
        /\ op.panel.story = "s3"
        /\ runLog.scenes[3] = "s3"
        /\ panels[3].story = "e"

\* C14: removing the character at index i of a panel that holds 2 leaves the
\* panel with the other character only, and changes nothing else.
C14_RemoveKeepsOther ==
    [][\A p \in Panels :
          (/\ lastEvent'.kind = "remove"
           /\ lastEvent'.panel = p
           /\ edits' = edits + 1
           /\ Len(panels[p].characters) = 2)
          => /\ panels'[p].characters = <<panels[p].characters[3 - lastEvent'.index]>>
             /\ panels'[p].story = panels[p].story
             /\ panels'[p].image = panels[p].image
             /\ panels'[p].isRegenerating = panels[p].isRegenerating
             /\ \A q \in Panels \ {p} : panels'[q] = panels[q]]_vars

\* two files were picked for a panel and the first was removed
C14_Witness ==
    /\ lastEvent.kind = "remove"
    /\ lastEvent.index = 1
    /\ panels[lastEvent.panel].characters = <<CharacterOf(2)>>

\* the response of the split call is no list, or an empty list
Malformed(response) ==
    response.kind = "notArray" \/ (response.kind = "array" /\ response.items = <<>>)

\* C15: when the response of the split call is no non-empty list, the split
\* fails and handleGenerate ends: no second split call, no compositor or
\* generation call of the run, and no panel's story changed.
C15_MalformedSplitAborts ==
    [][(lastEvent'.kind \in {"splitOk", "splitFail"} /\ run.pc = "split"
        /\ Malformed(lastEvent'.response))
       => /\ ~lastEvent'.ok
          /\ run'.pc = "idle"
          /\ ~loading'
          /\ ops' = ops
          /\ runLog'.preprocessed = {} /\ runLog'.generated = {}
          /\ \A p \in Panels : panels'[p].story = panels[p].story]_vars

C15_Witness ==
    /\ lastEvent.kind = "splitFail"
    /\ lastEvent.response = [kind |-> "array", items |-> <<>>]
    /\ run.pc = "idle"
    /\ ~loading

\* the story is empty or consists of spaces
Blank(text) == \A k \in 1..Len(text) : text[k] = " "

\* C17: a Create Storytoon click with an empty or whitespace-only story sets
\* the error message and nothing else: no split call, loading stays false,
\* no panel changes.
C17_BlankStoryRejected ==
    [][(lastEvent'.kind \in {"generate", "generateRejected"} /\ runs' = runs + 1
        /\ Blank(story))
       => /\ error' # NoError
          /\ run' = run /\ run.pc = "idle"
          /\ ~loading'
          /\ panels' = panels
          /\ ops' = ops
          /\ generationAttempted' = generationAttempted]_vars

C17_Witness ==
    /\ lastEvent.kind = "generateRejected"
    /\ story = <<" ">>
    /\ error = StoryMissingError
    /\ ~loading

\* C19: a panel that is Generating has no image.
C19_GeneratingHasNoImage ==
    \A p \in Panels : panels[p].isRegenerating => panels[p].image = NullImage

\* the second run has started panel 1, which held an image when the run began
C19_Witness ==
    /\ lastEvent.kind = "splitOk"
    /\ runLog.before[1] # NullImage
    /\ panels[1].isRegenerating
    /\ panels[1].image = NullImage

\* C20: the start, the success and the failure of a runGeneration call change
\* nothing but the image and the in-progress flag of its panel.  A step of
\* the run that settles the call of one panel and starts the call of the
\* next changes those two panels; the step that assigns the split results is
\* compared with the panels the run assigns.
C20_AttemptFrame ==
    [][/\ lastEvent'.kind \in {"regen", "preOk", "preFail", "genOk", "genFail"} =>
             \A q \in Panels :
                 /\ panels'[q].story = panels[q].story
                 /\ panels'[q].characters = panels[q].characters
                 /\ q \notin {lastEvent'.panel, lastEvent'.started} => panels'[q] = panels[q]
       /\ lastEvent'.kind = "splitOk" =>
             \A q \in Panels :
                 /\ panels'[q].story = lastEvent'.arg[q]
                 /\ panels'[q].characters = run.panels[q].characters
                 /\ q # 1 => /\ panels'[q].image = run.panels[q].image
                             /\ panels'[q].isRegenerating = run.panels[q].isRegenerating]_vars

\* a call has succeeded for a panel that holds a story and a character
C20_Witness ==
    /\ lastEvent.kind = "genOk"
    /\ panels[lastEvent.panel].story # ""
    /\ panels[lastEvent.panel].characters # <<>>
    /\ panels[lastEvent.panel].image # NullImage


\* C18: when every issued call settles, a full-story run eventually ends
\* with loading false, and a panel that is Generating eventually is Idle.
C18_RunsAndPanelsSettle ==
    /\ loading ~> ~loading
    /\ \A p \in Panels : panels[p].isRegenerating ~> ~panels[p].isRegenerating

\* the part of C18 about the run
C18_RunEnds == loading ~> ~loading

=============================================================================
